---------------------------- MODULE Spec2Model ----------------------------
(***************************************************************************)
(* A model of trzsz-ssh (tssh): the exit hook registries, the background   *)
(* supervisor, command / pty resolution, the stdio pump, and one run of    *)
(* TsshMain through sshStart and enableTrzsz.                              *)
(*                                                                         *)
(* Each component has a specification of its own (SpecRegistry, ...): the  *)
(* variables of the other components keep their idle values there.         *)
(***************************************************************************)
EXTENDS Integers, Sequences, FiniteSets, TLC

VARIABLES
    \* ---- exit hook registries (main.go 105-119)
    onExitFuncs,          \* var onExitFuncs []func()
    cleanupAfterLogined,  \* var cleanupAfterLogined []func()
    drainPc,              \* per registry: "idle" | "loop" | "done"
    drainI,               \* per registry: the loop variable i (1-based)
    invoked,              \* per registry: the callbacks invoked so far, in order
    atDrain,              \* per registry: the registry when its drain began
    \* ---- background supervisor (main.go 42-103), one entry per process
    Reconnect,            \* args.Reconnect, the same flag in every re-execution
    startBudget,          \* how many children one process may start in this run
    pc,                   \* "unborn" | "entry" | "start" | "wait" | "session" |
                          \* "parent" | "error" | "exited"
    environ,              \* os.Environ(): the markers set to TRUE
    osArgs,               \* os.Args as the process was started
    Destination,          \* args.Destination
    dest,                 \* the resolved destination handed to background()
    monitor,              \* the local monitor
    env,                  \* the local env, built for the children
    newArgs,              \* the local newArgs
    sleepTime,            \* the local sleepTime, in seconds
    cmd,                  \* the exec.Cmd last started
    nStarts,              \* children started so far
    bgErr,                \* "" | "replace" | "start": the error returned
    lifetimes,            \* what time.Since(beginTime) was for each child
    lastSleep,            \* the argument of the last time.Sleep (0: none)
    liveBG,               \* live re-executed processes carrying the background marker
    waitErr,              \* what the last cmd.Wait() returned: "" | "nil" | "err"
    sshStarts,            \* calls of sshStart by the process's TsshMain
    tsshCode,             \* what the process's TsshMain returned (-1: running)
    \* ---- command and pty resolution (main.go 121-175, 255-266)
    Command,              \* args.Command
    Argument,             \* args.Argument
    Option,               \* args.Option.options: lower-cased key -> values
    config,               \* the configuration file's values for the destination
    isTerminal,           \* var isTerminal
    DisableTTY,           \* args.DisableTTY
    ForceTTY,             \* args.ForceTTY
    sshPc,                \* sshStart: "idle" | "parse" | "login" | "logined" | "returned"
    rcResult,             \* what parseRemoteCommand returned
    parsed,               \* what parseCmdAndTTY returned
    loginCalls,           \* calls of sshLogin
    sshErr,               \* the error sshStart returned
    \* ---- stdio pump (part_001 40-86), one forwardIO goroutine
    win,                  \* runtime.GOOS == "windows"
    tty,                  \* the tty argument of wrapStdIO
    input,                \* the input argument of forwardIO
    src,                  \* the bytes the reader has still to deliver
    delivered,            \* the bytes the reader has delivered
    sink,                 \* the bytes written to the writer
    pumpPc,               \* "idle" | "read" | "closed"
    endedBy,              \* "" | "eof" | "readErr" | "writeErr"
    nEof,                 \* how often the reader reported io.EOF
    nClose,               \* calls of writer.Close()
    nCtrlZ,               \* calls of writer.Write([]byte{0x1A})
    \* ---- one run: TsshMain, sshStart (main.go 177-326), enableTrzsz (part_001 87-170)
    Background,           \* args.Background
    StdioForward,         \* args.StdioForward
    NoCommand,            \* args.NoCommand
    Relay,                \* args.Relay
    noGUI,                \* what isNoGUI() returns
    EnableTrzsz,          \* what getExOptionConfig(args, "EnableTrzsz") returns
    destGiven,            \* args.Destination != ""
    mainPc,               \* the statement the run is at
    err,                  \* TsshMain's err
    exitCode,             \* what TsshMain returned (-1: nothing yet)
    mainDefers,           \* the deferred calls of TsshMain, in registration order
    sshDefers,            \* the deferred calls of sshStart, in registration order
    log,                  \* the calls made so far, in order
    stderrOut,            \* what TsshMain wrote to os.Stderr
    stdinRaw,             \* the local terminal is in raw mode
    client,               \* the login handle: "none" | "open" | "closed"
    session,              \* "none" | "nil" | "open" | "closed"
    consumers,            \* per session stream: the pumps and filters started on it
    nResize,              \* calls of onTerminalResize
    connector,            \* the tunnel connector set: "none" | "relay" | "filter"
    evaluated,            \* the predicates enableTrzsz has evaluated
    dials                 \* the states of the client at the tunnel dials so far

regVars == <<onExitFuncs, cleanupAfterLogined, drainPc, drainI, invoked, atDrain>>

bgVars == <<Reconnect, startBudget, pc, environ, osArgs, Destination, dest, monitor,
            env, newArgs, sleepTime, cmd, nStarts, bgErr, lifetimes, lastSleep,
            liveBG, waitErr, sshStarts, tsshCode>>

resVars == <<Command, Argument, Option, config, isTerminal, DisableTTY, ForceTTY,
             sshPc, rcResult, parsed, loginCalls, sshErr>>

pumpVars == <<win, tty, input, src, delivered, sink, pumpPc, endedBy, nEof, nClose,
              nCtrlZ>>

mainVars == <<Background, StdioForward, NoCommand, Relay, noGUI, EnableTrzsz,
              destGiven, mainPc, err, exitCode, mainDefers, sshDefers, log,
              stderrOut, stdinRaw, client, session, consumers, nResize, connector,
              evaluated, dials>>

vars == <<regVars, bgVars, resVars, pumpVars, mainVars>>

notRegVars == <<bgVars, resVars, pumpVars, mainVars>>

notBgVars == <<regVars, resVars, pumpVars, mainVars>>

notResVars == <<regVars, bgVars, pumpVars, mainVars>>

notPumpVars == <<regVars, bgVars, resVars, mainVars>>

(***************************************************************************)
(* Bounds of the model.                                                    *)
(***************************************************************************)
MaxFuncs == 3

MaxArgs == 3

MaxStarts == 12

FewStarts == 2

Depth == 3

MaxOptValues == 2

MaxLen == 4

MaxChunk == 3

MaxEof == 2

(***************************************************************************)
(* Helpers.                                                                *)
(***************************************************************************)
Min(a, b) == IF a < b THEN a ELSE b

Range(s) == {s[i] : i \in DOMAIN s}

Reverse(s) == [i \in 1..Len(s) |-> s[Len(s) + 1 - i]]

SeqsUpTo(S, n) == UNION {[1..k -> S] : k \in 0..n}

(***************************************************************************)
(* Exit hook registries.                                                   *)
(***************************************************************************)
Callbacks == {"A", "B", "C"}

Registries == {"onExit", "afterLogin"}

RegistryOf(r) == IF r = "onExit" THEN onExitFuncs ELSE cleanupAfterLogined

IdleRegistry ==
    /\ onExitFuncs = <<>>
    /\ cleanupAfterLogined = <<>>
    /\ drainPc = [r \in Registries |-> "idle"]
    /\ drainI = [r \in Registries |-> 0]
    /\ invoked = [r \in Registries |-> <<>>]
    /\ atDrain = [r \in Registries |-> <<>>]

\* onExitFuncs = append(onExitFuncs, f): made by the code that acquires a resource
RegisterOnExit(f) ==
    /\ Len(onExitFuncs) < MaxFuncs
    /\ onExitFuncs' = Append(onExitFuncs, f)
    /\ UNCHANGED <<cleanupAfterLogined, drainPc, drainI, invoked, atDrain>>
    /\ UNCHANGED notRegVars

\* cleanupAfterLogined = append(cleanupAfterLogined, f)
RegisterAfterLogined(f) ==
    /\ Len(cleanupAfterLogined) < MaxFuncs
    /\ cleanupAfterLogined' = Append(cleanupAfterLogined, f)
    /\ UNCHANGED <<onExitFuncs, drainPc, drainI, invoked, atDrain>>
    /\ UNCHANGED notRegVars

\* a plausible slip: i := len(funcs) - 2
DrainFirst_OffByOne(funcs) == Len(funcs) - 1

\* i := len(funcs) - 1, as a 1-based index
DrainFirst(funcs) == Len(funcs)

\* i--
DrainNext(i) == i - 1

\* the loop's initialisation: for i := len(funcs) - 1; ...
DrainBegin(r) ==
    /\ drainPc[r] = "idle"
    /\ drainPc' = [drainPc EXCEPT ![r] = "loop"]
    /\ drainI' = [drainI EXCEPT ![r] = DrainFirst(RegistryOf(r))]
    /\ atDrain' = [atDrain EXCEPT ![r] = RegistryOf(r)]
    /\ UNCHANGED <<onExitFuncs, cleanupAfterLogined, invoked>>
    /\ UNCHANGED notRegVars

\* one turn of the loop: i >= 0 ? funcs[i](), i-- : return
DrainStep(r) ==
    /\ drainPc[r] = "loop"
    /\ IF drainI[r] >= 1
       THEN /\ invoked' = [invoked EXCEPT ![r] = Append(@, RegistryOf(r)[drainI[r]])]
            /\ drainI' = [drainI EXCEPT ![r] = DrainNext(@)]
            /\ UNCHANGED drainPc
       ELSE /\ drainPc' = [drainPc EXCEPT ![r] = "done"]
            /\ UNCHANGED <<invoked, drainI>>
    /\ UNCHANGED <<onExitFuncs, cleanupAfterLogined, atDrain>>
    /\ UNCHANGED notRegVars

cleanupOnExit ==
    \/ DrainBegin("onExit")
    \/ DrainStep("onExit")

cleanupForGC ==
    \/ DrainBegin("afterLogin")
    \/ DrainStep("afterLogin")

(***************************************************************************)
(* Background supervisor.  Process 1 is the user's invocation with -f; a   *)
(* process started by process p is process p + 1.                          *)
(***************************************************************************)
Procs == 1..Depth

BACKGROUND == "TRZSZ-SSH-BACKGROUND"

BG_MONITOR == "TRZSZ-SSH-BG-MONITOR"

Strs == {"p", "a", "b"}

Dests == {"a", "b"}

\* what time.Since(beginTime) may be, in seconds
Lifetimes == {9, 10}

\* 10*time.Second in "time.Since(beginTime) < 10*time.Second"
RestartWindow == 10

\* 10*time.Second in "sleepTime < 10*time.Second"
SleepCap == 10

\* time.Second
Second == 1

NoCmd == [Path |-> "", Args |-> <<>>, Env |-> {}]

IdleBackground ==
    /\ Reconnect = FALSE
    /\ startBudget = 0
    /\ pc = [p \in Procs |-> "unborn"]
    /\ environ = [p \in Procs |-> {}]
    /\ osArgs = [p \in Procs |-> <<>>]
    /\ Destination = [p \in Procs |-> ""]
    /\ dest = [p \in Procs |-> ""]
    /\ monitor = [p \in Procs |-> FALSE]
    /\ env = [p \in Procs |-> {}]
    /\ newArgs = [p \in Procs |-> <<>>]
    /\ sleepTime = [p \in Procs |-> 0]
    /\ cmd = [p \in Procs |-> NoCmd]
    /\ nStarts = [p \in Procs |-> 0]
    /\ bgErr = [p \in Procs |-> ""]
    /\ lifetimes = [p \in Procs |-> <<>>]
    /\ lastSleep = [p \in Procs |-> 0]
    /\ liveBG = 0
    /\ waitErr = [p \in Procs |-> ""]
    /\ sshStarts = [p \in Procs |-> 0]
    /\ tsshCode = [p \in Procs |-> -1]

\* the user's invocation: a clean environment, any argument vector
StartOfBackground(budget, argvs, dsts) ==
    /\ Reconnect \in BOOLEAN
    /\ startBudget = budget
    /\ pc = [p \in Procs |-> IF p = 1 THEN "entry" ELSE "unborn"]
    /\ environ = [p \in Procs |-> {}]
    /\ \E a \in argvs : osArgs = [p \in Procs |-> IF p = 1 THEN a ELSE <<>>]
    /\ \E d \in dsts : Destination = [p \in Procs |-> IF p = 1 THEN d ELSE ""]
    /\ \E d \in Dests : dest = [p \in Procs |-> IF p = 1 THEN d ELSE ""]
    /\ monitor = [p \in Procs |-> FALSE]
    /\ env = [p \in Procs |-> {}]
    /\ newArgs = [p \in Procs |-> <<>>]
    /\ sleepTime = [p \in Procs |-> 0]
    /\ cmd = [p \in Procs |-> NoCmd]
    /\ nStarts = [p \in Procs |-> 0]
    /\ bgErr = [p \in Procs |-> ""]
    /\ lifetimes = [p \in Procs |-> <<>>]
    /\ lastSleep = [p \in Procs |-> 0]
    /\ liveBG = 0
    /\ waitErr = [p \in Procs |-> ""]
    /\ sshStarts = [p \in Procs |-> 0]
    /\ tsshCode = [p \in Procs |-> -1]

\* a plausible slip: the else is lost and both markers are appended
BuildEnv_NoElse(e, reconnect, mon) ==
    IF reconnect /\ ~mon THEN e \cup {BG_MONITOR, BACKGROUND} ELSE e \cup {BACKGROUND}

\* env := os.Environ(); append one marker
BuildEnv(e, reconnect, mon) ==
    IF reconnect /\ ~mon THEN e \cup {BG_MONITOR} ELSE e \cup {BACKGROUND}

\* the positions of d in args
Matches(args, d) == {i \in DOMAIN args : args[i] = d}

\* idx after the loop: the last position that matched (0: none; -1 in the code)
LastMatch(args, d) ==
    IF Matches(args, d) = {} THEN 0
    ELSE CHOOSE i \in Matches(args, d) : \A j \in Matches(args, d) : j <= i

\* a plausible slip: only a destination that is missing is refused
ReplaceRefused_OnlyMissing(count) == count < 1

\* if count != 1 { return true, fmt.Errorf(...) }
ReplaceRefused(count) == count # 1

\* a plausible slip: newArgs[0] = dest
SubstituteAt_First(args, idx, d) == [args EXCEPT ![1] = d]

\* newArgs[idx] = dest
SubstituteAt(args, idx, d) == [args EXCEPT ![idx] = d]

\* newArgs of lines 58-74: [ok, args]
BuildNewArgs(args, D, d) ==
    IF D = "" THEN [ok |-> TRUE, args |-> Append(args, d)]
    ELSE IF D # d
    THEN IF ReplaceRefused(Cardinality(Matches(args, D)))
         THEN [ok |-> FALSE, args |-> args]
         ELSE [ok |-> TRUE, args |-> SubstituteAt(args, LastMatch(args, D), d)]
    ELSE [ok |-> TRUE, args |-> args]

\* a plausible slip: the cap is lost
NextSleepTime_NoCap(st, elapsed) ==
    IF elapsed < RestartWindow THEN st + Second ELSE 0

\* sleepTime after lines 94-101
NextSleepTime(st, elapsed) ==
    IF elapsed < RestartWindow
    THEN (IF st < SleepCap THEN st + Second ELSE st)
    ELSE 0

\* what is slept at line 98 (0: time.Sleep is not called)
SleptFor(st, elapsed) ==
    IF elapsed < RestartWindow THEN NextSleepTime(st, elapsed) ELSE 0

\* cmd.Wait() returns when the child has exited
WaitReturns(childPc) == childPc = "exited"

\* arg.MustParse in the child: the destination is the argument the parent put in
ParsedDestination(parentDest) == parentDest

\* predictDestination(destination): what the destination may resolve to
predictDestination(destination) == Dests

\* TsshMain after background() has returned to label: sshStart is called when
\* background() returned (false, nil), and only then
SshStartCalls(label) == IF label = "session" THEN 1 ELSE 0

\* lines 42-75: the marker check, env and newArgs
BgEntry(p) ==
    /\ pc[p] = "entry"
    /\ IF BACKGROUND \in environ[p]
       THEN /\ pc' = [pc EXCEPT ![p] = "session"]
            /\ sshStarts' = [sshStarts EXCEPT ![p] = @ + SshStartCalls("session")]
            /\ UNCHANGED <<monitor, env, newArgs, bgErr>>
       ELSE LET mon == BG_MONITOR \in environ[p]
                na == BuildNewArgs(osArgs[p], Destination[p], dest[p])
            IN /\ monitor' = [monitor EXCEPT ![p] = mon]
               /\ env' = [env EXCEPT ![p] = BuildEnv(environ[p], Reconnect, mon)]
               /\ newArgs' = [newArgs EXCEPT ![p] = na.args]
               /\ pc' = [pc EXCEPT ![p] = IF na.ok THEN "start" ELSE "error"]
               /\ bgErr' = [bgErr EXCEPT ![p] = IF na.ok THEN "" ELSE "replace"]
               /\ UNCHANGED sshStarts
    /\ UNCHANGED <<Reconnect, startBudget, environ, osArgs, Destination, dest,
                   sleepTime, cmd, nStarts, lifetimes, lastSleep, liveBG, waitErr,
                   tsshCode>>
    /\ UNCHANGED notBgVars

\* a plausible slip: the process that started the child goes on to the session
AfterStart_Continues(mon) == IF mon THEN "wait" ELSE "session"

\* lines 88-90: if !monitor { return true, nil }
AfterStart(mon) == IF mon THEN "wait" ELSE "parent"

\* lines 78-90, cmd.Start() succeeds: the child p + 1 begins with Args and Env;
\* it parses the destination out of its arguments and resolves it again
BgStart(p) ==
    /\ pc[p] = "start"
    /\ p + 1 \in Procs
    /\ nStarts[p] < startBudget
    /\ LET c == [Path |-> newArgs[p][1], Args |-> newArgs[p], Env |-> env[p]]
           q == p + 1
       IN /\ cmd' = [cmd EXCEPT ![p] = c, ![q] = NoCmd]
          /\ nStarts' = [nStarts EXCEPT ![p] = @ + 1, ![q] = 0]
          /\ pc' = [pc EXCEPT ![p] = AfterStart(monitor[p]), ![q] = "entry"]
          /\ sshStarts' = [sshStarts EXCEPT
                              ![p] = @ + SshStartCalls(AfterStart(monitor[p])),
                              ![q] = 0]
          /\ tsshCode' = [tsshCode EXCEPT ![q] = -1]
          /\ environ' = [environ EXCEPT ![q] = c.Env]
          /\ osArgs' = [osArgs EXCEPT ![q] = c.Args]
          /\ Destination' = [Destination EXCEPT ![q] = ParsedDestination(dest[p])]
          /\ \E d \in predictDestination(ParsedDestination(dest[p])) :
                dest' = [dest EXCEPT ![q] = d]
          /\ monitor' = [monitor EXCEPT ![q] = FALSE]
          /\ env' = [env EXCEPT ![q] = {}]
          /\ newArgs' = [newArgs EXCEPT ![q] = <<>>]
          /\ sleepTime' = [sleepTime EXCEPT ![q] = 0]
          /\ bgErr' = [bgErr EXCEPT ![q] = ""]
          /\ lifetimes' = [lifetimes EXCEPT ![q] = <<>>]
          /\ lastSleep' = [lastSleep EXCEPT ![q] = 0]
          /\ waitErr' = [waitErr EXCEPT ![q] = ""]
          /\ liveBG' = IF BACKGROUND \in c.Env THEN liveBG + 1 ELSE liveBG
    /\ UNCHANGED <<Reconnect, startBudget>>
    /\ UNCHANGED notBgVars

\* lines 85-87, cmd.Start() fails
BgStartFails(p) ==
    /\ pc[p] = "start"
    /\ nStarts[p] < startBudget
    /\ pc' = [pc EXCEPT ![p] = "error"]
    /\ bgErr' = [bgErr EXCEPT ![p] = "start"]
    /\ UNCHANGED <<Reconnect, startBudget, environ, osArgs, Destination, dest,
                   monitor, env, newArgs, sleepTime, cmd, nStarts, lifetimes,
                   lastSleep, liveBG, waitErr, sshStarts, tsshCode>>
    /\ UNCHANGED notBgVars

\* a plausible slip: the error of cmd.Wait() ends the loop
AfterWait_StopsOnError(werr) == IF werr = "err" THEN "error" ELSE "start"

\* line 93: _ = cmd.Wait(), the loop goes on whatever it returned
AfterWait(werr) == "start"

\* lines 92-101: the child has exited after `elapsed` and cmd.Wait() returned
\* werr; back off and loop
BgWait(p, elapsed, werr) ==
    /\ pc[p] = "wait"
    /\ WaitReturns(pc[p + 1])
    /\ waitErr' = [waitErr EXCEPT ![p] = werr]
    /\ lifetimes' = [lifetimes EXCEPT ![p] = Append(@, elapsed)]
    /\ sleepTime' = [sleepTime EXCEPT ![p] = NextSleepTime(@, elapsed)]
    /\ lastSleep' = [lastSleep EXCEPT ![p] = SleptFor(sleepTime[p], elapsed)]
    /\ pc' = [pc EXCEPT ![p] = AfterWait(werr)]
    /\ UNCHANGED <<Reconnect, startBudget, environ, osArgs, Destination, dest,
                   monitor, env, newArgs, cmd, nStarts, bgErr, liveBG, sshStarts,
                   tsshCode>>
    /\ UNCHANGED notBgVars

\* lines 236-252: what TsshMain returns after background() has returned to
\* label; ok: sshStart returned no error
TsshMainCode(label, ok) ==
    CASE label = "error" -> 5
      [] label = "parent" -> 0
      [] label = "session" -> IF ok THEN 0 ELSE 6

\* the process ends: TsshMain returns (the parent, an error) or its session is over
ProcExit(p, ok) ==
    /\ pc[p] \in {"session", "parent", "error"}
    /\ pc[p] # "session" => ok
    /\ pc' = [pc EXCEPT ![p] = "exited"]
    /\ tsshCode' = [tsshCode EXCEPT ![p] = TsshMainCode(pc[p], ok)]
    /\ liveBG' = IF p > 1 /\ BACKGROUND \in environ[p] THEN liveBG - 1 ELSE liveBG
    /\ UNCHANGED <<Reconnect, startBudget, environ, osArgs, Destination, dest,
                   monitor, env, newArgs, sleepTime, cmd, nStarts, bgErr,
                   lifetimes, lastSleep, waitErr, sshStarts>>
    /\ UNCHANGED notBgVars

background(p) ==
    \/ BgEntry(p)
    \/ BgStart(p)
    \/ BgStartFails(p)
    \/ \E t \in Lifetimes, werr \in {"nil", "err"} : BgWait(p, t, werr)

NextBackground ==
    \/ \E p \in Procs : background(p)
    \/ \E p \in Procs, ok \in BOOLEAN : ProcExit(p, ok)

(***************************************************************************)
(* Strings whose letters matter are sequences of characters, so that       *)
(* strings.ToLower, strings.Join and fmt.Sprintf do what they do.          *)
(***************************************************************************)
UpperLetters == <<"A", "B", "C", "D", "E", "F", "G", "H", "I", "J", "K", "L", "M",
                  "N", "O", "P", "Q", "R", "S", "T", "U", "V", "W", "X", "Y", "Z">>

LowerLetters == <<"a", "b", "c", "d", "e", "f", "g", "h", "i", "j", "k", "l", "m",
                  "n", "o", "p", "q", "r", "s", "t", "u", "v", "w", "x", "y", "z">>

LowerChar(c) ==
    IF \E i \in DOMAIN UpperLetters : UpperLetters[i] = c
    THEN LowerLetters[CHOOSE i \in DOMAIN UpperLetters : UpperLetters[i] = c]
    ELSE c

\* strings.ToLower
ToLower(str) == [i \in DOMAIN str |-> LowerChar(str[i])]

\* strings.Join(elems, sep)
RECURSIVE Join(_, _)
Join(elems, sep) ==
    IF elems = <<>> THEN <<>>
    ELSE IF Len(elems) = 1 THEN elems[1]
    ELSE elems[1] \o sep \o Join(Tail(elems), sep)

EmptyStr == <<>>

s_none == <<"n", "o", "n", "e">>

s_None == <<"N", "o", "n", "e">>

s_top == <<"t", "o", "p">>

s_ls == <<"l", "s">>

s_dashl == <<"-", "l">>

s_slash == <<"/">>

s_auto == <<"a", "u", "t", "o">>

s_Auto == <<"A", "u", "t", "o">>

s_no == <<"n", "o">>

s_force == <<"f", "o", "r", "c", "e">>

s_yes == <<"y", "e", "s">>

s_YES == <<"Y", "E", "S">>

s_maybe == <<"m", "a", "y", "b", "e">>

k_RemoteCommand == <<"R", "e", "m", "o", "t", "e", "C", "o", "m", "m", "a", "n", "d">>

k_RequestTTY == <<"R", "e", "q", "u", "e", "s", "t", "T", "T", "Y">>

k_port == <<"p", "o", "r", "t">>

\* the values a RemoteCommand is given in this model
RemoteCommands == {s_none, s_None, s_top}

\* the values a RequestTTY is given in this model
RequestTTYs == {EmptyStr, s_auto, s_Auto, s_no, s_force, s_yes, s_YES, s_maybe}

\* args.Option after the -o options were unmarshalled: nil, without the key, with it
OptionMaps ==
    {<<>>} \cup {[k \in {k_port} |-> <<<<"2", "2">>>>]}
           \cup {[k \in {ToLower(k_RemoteCommand)} |-> vs] :
                    vs \in SeqsUpTo(RemoteCommands, MaxOptValues) \ {<<>>}}

NoErr == [msg |-> "", value |-> EmptyStr]

ErrCmdConflict == [msg |-> "cannot execute command-line and remote command",
                   value |-> EmptyStr]

ErrTTYConflict == [msg |-> "cannot specify -t with -T", value |-> EmptyStr]

ErrUnknownRequestTTY(v) == [msg |-> "unknown RequestTTY option: %s", value |-> v]

ErrLogin == [msg |-> "login failed", value |-> EmptyStr]

NoResult == [cmd |-> EmptyStr, tty |-> FALSE, err |-> NoErr]

IdleResolve ==
    /\ Command = EmptyStr
    /\ Argument = <<>>
    /\ Option = <<>>
    /\ config = <<>>
    /\ isTerminal = FALSE
    /\ DisableTTY = FALSE
    /\ ForceTTY = FALSE
    /\ sshPc = "idle"
    /\ rcResult = NoResult
    /\ parsed = NoResult
    /\ loginCalls = 0
    /\ sshErr = NoErr

\* sshStart is called with any arguments and any configuration
StartOfResolve ==
    /\ Command \in {EmptyStr, s_ls}
    /\ Argument \in {<<>>, <<s_dashl>>, <<s_dashl, s_slash>>}
    /\ Command = EmptyStr => Argument = <<>>
    /\ Option \in OptionMaps
    /\ \E rc \in RemoteCommands \cup {EmptyStr}, rt \in RequestTTYs :
          config = [k \in {k_RemoteCommand, k_RequestTTY} |->
                       IF k = k_RemoteCommand THEN rc ELSE rt]
    /\ isTerminal \in BOOLEAN
    /\ DisableTTY \in BOOLEAN
    /\ ForceTTY \in BOOLEAN
    /\ sshPc = "parse"
    /\ rcResult = NoResult
    /\ parsed = NoResult
    /\ loginCalls = 0
    /\ sshErr = NoErr

\* func (o *sshOption) get(option string) string
get(o, option) ==
    IF DOMAIN o = {} THEN EmptyStr
    ELSE IF ToLower(option) \notin DOMAIN o THEN EmptyStr
    ELSE IF Len(o[ToLower(option)]) = 0 THEN EmptyStr
    ELSE o[ToLower(option)][1]

\* getConfig(alias, key): the configuration file's value of key for the destination
getConfig(cfg, key) == cfg[key]

\* func parseRemoteCommand(args *sshArgs) (string, error)
parseRemoteCommand(cmdline, argument, o, cfg) ==
    LET c == get(o, k_RemoteCommand)
    IN IF cmdline # EmptyStr /\ c # EmptyStr /\ ToLower(c) # s_none
       THEN [cmd |-> EmptyStr, err |-> ErrCmdConflict]
       ELSE IF cmdline # EmptyStr
       THEN IF Len(argument) = 0
            THEN [cmd |-> cmdline, err |-> NoErr]
            ELSE [cmd |-> cmdline \o <<" ">> \o Join(argument, <<" ">>), err |-> NoErr]
       ELSE IF ToLower(c) = s_none
       THEN [cmd |-> EmptyStr, err |-> NoErr]
       ELSE IF c # EmptyStr
       THEN [cmd |-> c, err |-> NoErr]
       ELSE [cmd |-> getConfig(cfg, k_RemoteCommand), err |-> NoErr]

\* a plausible slip: the -t / -T conflict is not looked for
TTYConflict_Lost(disable, force) == FALSE

\* if args.DisableTTY && args.ForceTTY
TTYConflict(disable, force) == disable /\ force

\* a plausible slip: "yes" is handled like "force"
RequestTTYDecision_YesForces(requestTTY, isTerm, c) ==
    LET v == ToLower(requestTTY)
    IN IF v = EmptyStr \/ v = s_auto THEN [tty |-> isTerm /\ c = EmptyStr, err |-> NoErr]
       ELSE IF v = s_no THEN [tty |-> FALSE, err |-> NoErr]
       ELSE IF v = s_force \/ v = s_yes THEN [tty |-> TRUE, err |-> NoErr]
       ELSE [tty |-> FALSE, err |-> ErrUnknownRequestTTY(requestTTY)]

\* switch strings.ToLower(requestTTY)
RequestTTYDecision(requestTTY, isTerm, c) ==
    LET v == ToLower(requestTTY)
    IN IF v = EmptyStr \/ v = s_auto THEN [tty |-> isTerm /\ c = EmptyStr, err |-> NoErr]
       ELSE IF v = s_no THEN [tty |-> FALSE, err |-> NoErr]
       ELSE IF v = s_force THEN [tty |-> TRUE, err |-> NoErr]
       ELSE IF v = s_yes THEN [tty |-> isTerm, err |-> NoErr]
       ELSE [tty |-> FALSE, err |-> ErrUnknownRequestTTY(requestTTY)]

\* func parseCmdAndTTY(args *sshArgs) (cmd string, tty bool, err error)
parseCmdAndTTY(cmdline, argument, o, cfg, disable, force, isTerm) ==
    LET rc == parseRemoteCommand(cmdline, argument, o, cfg)
    IN IF rc.err # NoErr
       THEN [cmd |-> rc.cmd, tty |-> FALSE, err |-> rc.err]
       ELSE IF TTYConflict(disable, force)
       THEN [cmd |-> rc.cmd, tty |-> FALSE, err |-> ErrTTYConflict]
       ELSE IF disable THEN [cmd |-> rc.cmd, tty |-> FALSE, err |-> NoErr]
       ELSE IF force THEN [cmd |-> rc.cmd, tty |-> TRUE, err |-> NoErr]
       ELSE LET d == RequestTTYDecision(getConfig(cfg, k_RequestTTY), isTerm, rc.cmd)
            IN [cmd |-> rc.cmd, tty |-> d.tty, err |-> d.err]

\* sshStart, lines 256-260: parse cmd and tty, return the error if there is one
sshStart_Parse ==
    /\ sshPc = "parse"
    /\ LET rc == parseRemoteCommand(Command, Argument, Option, config)
           r == parseCmdAndTTY(Command, Argument, Option, config,
                               DisableTTY, ForceTTY, isTerminal)
       IN /\ rcResult' = [cmd |-> rc.cmd, tty |-> FALSE, err |-> rc.err]
          /\ parsed' = r
          /\ sshPc' = IF r.err # NoErr THEN "returned" ELSE "login"
          /\ sshErr' = r.err
    /\ UNCHANGED <<Command, Argument, Option, config, isTerminal, DisableTTY,
                   ForceTTY, loginCalls>>
    /\ UNCHANGED notResVars

\* sshStart, lines 262-266: ssh login, return the error if there is one
sshStart_Login(ok) ==
    /\ sshPc = "login"
    /\ loginCalls' = loginCalls + 1
    /\ sshPc' = IF ok THEN "logined" ELSE "returned"
    /\ sshErr' = IF ok THEN NoErr ELSE ErrLogin
    /\ UNCHANGED <<Command, Argument, Option, config, isTerminal, DisableTTY,
                   ForceTTY, rcResult, parsed>>
    /\ UNCHANGED notResVars

NextResolve ==
    \/ sshStart_Parse
    \/ \E ok \in BOOLEAN : sshStart_Login(ok)

(***************************************************************************)
(* Stdio pump: one forwardIO goroutine of wrapStdIO.                            *)
(***************************************************************************)
IdlePump ==
    /\ win = FALSE
    /\ tty = FALSE
    /\ input = FALSE
    /\ src = <<>>
    /\ delivered = <<>>
    /\ sink = <<>>
    /\ pumpPc = "idle"
    /\ endedBy = ""
    /\ nEof = 0
    /\ nClose = 0
    /\ nCtrlZ = 0

\* "\r"
CR == 13

\* "\n"
LF == 10

\* 0x1A, ctrl + z
CtrlZ == 26

\* the bytes a stream is made of in this model: "\r", "\n" and "a"
Bytes == {CR, LF, 97}

\* bytes.ReplaceAll(b, old, new), old not empty
RECURSIVE ReplaceAll(_, _, _)
ReplaceAll(b, old, new) ==
    IF Len(b) < Len(old) THEN b
    ELSE IF SubSeq(b, 1, Len(old)) = old
    THEN new \o ReplaceAll(SubSeq(b, Len(old) + 1, Len(b)), old, new)
    ELSE <<b[1]>> \o ReplaceAll(Tail(b), old, new)

\* lines 61-68: buf := buffer[:n], rewritten on Windows without a pty
Rewritten(b, w, t, in) ==
    IF w /\ ~t
    THEN IF in THEN ReplaceAll(b, <<CR, LF>>, <<LF>>)
               ELSE ReplaceAll(b, <<LF>>, <<CR, LF>>)
    ELSE b

\* writeAll(dst, data): all of data is written, or a Write fails after a prefix
writeAll(data) ==
    {[written |-> data, ok |-> TRUE]}
        \cup {[written |-> SubSeq(data, 1, j), ok |-> FALSE] : j \in 0..Len(data)}

\* wrapStdIO starts the goroutine: go forwardIO(reader, writer, input)
StartOfPump ==
    /\ win \in BOOLEAN
    /\ tty \in BOOLEAN
    /\ input \in BOOLEAN
    /\ src \in SeqsUpTo(Bytes, MaxLen)
    /\ delivered = <<>>
    /\ sink = <<>>
    /\ pumpPc = "read"
    /\ endedBy = ""
    /\ nEof = 0
    /\ nClose = 0
    /\ nCtrlZ = 0

\* a plausible slip: tty is not tested
EofContinues_AnyTTY(w, t, in) == w /\ in

\* line 75: win && tty && input
EofContinues(w, t, in) == w /\ t /\ in

\* one turn of the loop of forwardIO, lines 59-84: reader.Read returns n bytes and
\* rerr ("nil", "EOF", "err"); w is what writeAll does with them; z tells whether
\* the Write of ctrl + z, whose result is dropped, wrote the byte
forwardIO(n, rerr, z) ==
    /\ pumpPc = "read"
    /\ n \in 0..Min(Len(src), MaxChunk)
    /\ n > 0 \/ rerr # "nil"
    /\ rerr = "EOF" => (n = Len(src) /\ nEof < MaxEof)
    /\ LET chunk == SubSeq(src, 1, n)
           buf == Rewritten(chunk, win, tty, input)
       IN \E w \in IF n > 0 THEN writeAll(buf) ELSE {[written |-> <<>>, ok |-> TRUE]} :
          /\ src' = SubSeq(src, n + 1, Len(src))
          /\ delivered' = delivered \o chunk
          /\ nEof' = IF rerr = "EOF" THEN nEof + 1 ELSE nEof
          /\ nCtrlZ' = IF w.ok /\ rerr = "EOF" /\ EofContinues(win, tty, input)
                       THEN nCtrlZ + 1 ELSE nCtrlZ
          /\ IF ~w.ok
             THEN /\ sink' = sink \o w.written
                  /\ pumpPc' = "closed"
                  /\ endedBy' = "writeErr"
                  /\ nClose' = nClose + 1
                  /\ z = FALSE
             ELSE IF rerr = "EOF"
             THEN IF EofContinues(win, tty, input)
                  THEN /\ sink' = sink \o w.written \o (IF z THEN <<CtrlZ>> ELSE <<>>)
                       /\ UNCHANGED <<pumpPc, endedBy, nClose>>
                  ELSE /\ sink' = sink \o w.written
                       /\ pumpPc' = "closed"
                       /\ endedBy' = "eof"
                       /\ nClose' = nClose + 1
                       /\ z = FALSE
             ELSE IF rerr = "err"
             THEN /\ sink' = sink \o w.written
                  /\ pumpPc' = "closed"
                  /\ endedBy' = "readErr"
                  /\ nClose' = nClose + 1
                  /\ z = FALSE
             ELSE /\ sink' = sink \o w.written
                  /\ UNCHANGED <<pumpPc, endedBy, nClose>>
                  /\ z = FALSE
    /\ UNCHANGED <<win, tty, input>>
    /\ UNCHANGED notPumpVars

NextPump ==
    \E n \in 0..MaxChunk, rerr \in {"nil", "EOF", "err"}, z \in BOOLEAN :
        forwardIO(n, rerr, z)

(***************************************************************************)
(* TsshMain, sshStart and enableTrzsz: one run of the program.             *)
(***************************************************************************)
\* bound: callbacks registered in each registry during one run
MaxHooks == 2

\* the codes execLocalTools may quit with
LocalToolCodes == {0, 1}

\* the values of args.StdioForward: not set, or a forward target
ForwardTargets == {"", "host:22"}

\* the values of EnableTrzsz in the configuration
EnableTrzszValues == {EmptyStr, s_no, <<"N", "o">>, s_yes}

\* the three session streams
Streams == {"stdin", "stdout", "stderr"}

ErrInitUserConfig == [msg |-> "init user config failed", value |-> EmptyStr]

ErrVirtualTerminal == [msg |-> "setup virtual terminal failed", value |-> EmptyStr]

ErrDestination == [msg |-> "predict destination failed", value |-> EmptyStr]

ErrBackground == [msg |-> "run in background failed: %v", value |-> EmptyStr]

ErrStdioForward == [msg |-> "stdio forward failed", value |-> EmptyStr]

ErrStartCommand(c) == [msg |-> "start command [%s] failed: %v", value |-> c]

ErrStartShell == [msg |-> "start shell failed: %v", value |-> EmptyStr]

ErrMakeStdinRaw == [msg |-> "make stdin raw failed", value |-> EmptyStr]

ErrTerminalSize == [msg |-> "get terminal size failed: %v", value |-> EmptyStr]

mainInputs == <<Background, StdioForward, NoCommand, Relay, noGUI, EnableTrzsz,
                destGiven>>

wiringVars == <<consumers, nResize, connector, evaluated>>

IdleMain ==
    /\ Background = FALSE
    /\ StdioForward = ""
    /\ NoCommand = FALSE
    /\ Relay = FALSE
    /\ noGUI = FALSE
    /\ EnableTrzsz = EmptyStr
    /\ destGiven = FALSE
    /\ mainPc = "idle"
    /\ err = NoErr
    /\ exitCode = -1
    /\ mainDefers = <<>>
    /\ sshDefers = <<>>
    /\ log = <<>>
    /\ stderrOut = <<>>
    /\ stdinRaw = FALSE
    /\ client = "none"
    /\ session = "none"
    /\ consumers = [s \in Streams |-> <<>>]
    /\ nResize = 0
    /\ connector = "none"
    /\ evaluated = {}
    /\ dials = {}

\* the process has parsed its arguments (line 179): any flags, any configuration
StartOfMain ==
    /\ Background \in BOOLEAN
    /\ StdioForward \in ForwardTargets
    /\ NoCommand \in BOOLEAN
    /\ Relay \in BOOLEAN
    /\ noGUI \in BOOLEAN
    /\ EnableTrzsz \in EnableTrzszValues
    /\ destGiven \in BOOLEAN
    /\ mainPc = "TsshMain"
    /\ err = NoErr
    /\ exitCode = -1
    /\ mainDefers = <<>>
    /\ sshDefers = <<>>
    /\ log = <<>>
    /\ stderrOut = <<>>
    /\ stdinRaw = FALSE
    /\ client = "none"
    /\ session = "none"
    /\ consumers = [s \in Streams |-> <<>>]
    /\ nResize = 0
    /\ connector = "none"
    /\ evaluated = {}
    /\ dials = {}

\* a plausible slip: defer cleanupOnExit() is lost
TsshMainDefers_NoCleanup == <<"printErr">>

\* the deferred calls of TsshMain, in the order of their defer statements
TsshMainDefers == <<"cleanupOnExit", "printErr">>

\* parser.WriteHelp(os.Stderr): what is written
Usage == <<"usage">>

\* a plausible slip: "%v\n"
ErrLine_NoCR(e) == <<e, LF>>

\* fmt.Fprintf(os.Stderr, "%v\r\n", err): what is written
ErrLine(e) == <<e, CR, LF>>

\* how often name occurs in a sequence of names
Count(s, name) == Cardinality({i \in DOMAIN s : s[i] = name})

\* a whole call of cleanupOnExit / cleanupForGC: the loop of lines 108-110, 116-118
CallDrain(r) ==
    /\ atDrain' = [atDrain EXCEPT ![r] = RegistryOf(r)]
    /\ invoked' = [invoked EXCEPT ![r] = @ \o Reverse(RegistryOf(r))]
    /\ drainPc' = [drainPc EXCEPT ![r] = "done"]
    /\ drainI' = [drainI EXCEPT ![r] = 0]
    /\ UNCHANGED <<onExitFuncs, cleanupAfterLogined>>

\* return code from TsshMain with err = e, after the events of this step and
\* after writing `written` to os.Stderr: the deferred calls run, last in first
\* out: the print of lines 191-195, then cleanupOnExit
TsshMainReturnsAfter(events, written, code, e) ==
    /\ exitCode' = code
    /\ err' = e
    /\ mainPc' = "exited"
    /\ mainDefers' = <<>>
    /\ LET run == Reverse(mainDefers)
       IN /\ log' = log \o events \o run
          /\ stderrOut' = stderrOut \o written \o
                [i \in 1..(IF e # NoErr THEN Count(run, "printErr") ELSE 0) |-> ErrLine(e)]
          /\ IF Count(run, "cleanupOnExit") > 0
             THEN CallDrain("onExit")
             ELSE UNCHANGED regVars

TsshMainReturns(code, e) == TsshMainReturnsAfter(<<>>, <<>>, code, e)

\* TsshMain goes on to the statement at label
TsshMainGoes(label) ==
    /\ mainPc' = label
    /\ UNCHANGED <<err, exitCode, mainDefers, log, stderrOut>>
    /\ UNCHANGED regVars

\* what TsshMain itself never touches
sshState == <<mainInputs, sshDefers, stdinRaw, client, session, wiringVars, dials>>

\* lines 177-195: the two defer statements
TsshMain_Enter ==
    /\ mainPc = "TsshMain"
    /\ mainPc' = "initUserConfig"
    /\ mainDefers' = TsshMainDefers
    /\ UNCHANGED <<err, exitCode, log, stderrOut>>
    /\ UNCHANGED <<regVars, sshState, bgVars, resVars, pumpVars>>

\* lines 197-200
TsshMain_initUserConfig(ok) ==
    /\ mainPc = "initUserConfig"
    /\ IF ok THEN TsshMainGoes("setupVirtualTerminal")
             ELSE TsshMainReturns(1, ErrInitUserConfig)
    /\ UNCHANGED <<sshState, bgVars, resVars, pumpVars>>

\* lines 202-207
TsshMain_setupVirtualTerminal(ok) ==
    /\ mainPc = "setupVirtualTerminal"
    /\ ~isTerminal => ok
    /\ IF ok THEN TsshMainGoes("execLocalTools")
             ELSE TsshMainReturns(2, ErrVirtualTerminal)
    /\ UNCHANGED <<sshState, bgVars, resVars, pumpVars>>

\* lines 209-212: execLocalTools returns (code, quit)
TsshMain_execLocalTools(code, quit) ==
    /\ mainPc = "execLocalTools"
    /\ IF quit THEN TsshMainReturnsAfter(<<"execLocalTools">>, <<>>, code, err)
               ELSE code = 0 /\ TsshMainGoes("chooseAlias")
    /\ UNCHANGED <<sshState, bgVars, resVars, pumpVars>>

\* lines 214-232: chooseAlias or predictDestination returns (dest, quit, err);
\* out is "ok", "quit", "quit+err" or "err"
TsshMain_chooseAlias(out) ==
    /\ mainPc = "chooseAlias"
    /\ IF ~destGiven /\ ~isTerminal
       THEN /\ out = "ok"
            /\ TsshMainReturnsAfter(<<"WriteHelp">>, <<Usage>>, 3, err)
       ELSE CASE out = "ok" -> TsshMainGoes("background")
              [] out \in {"quit", "quit+err"} ->
                    TsshMainReturnsAfter(<<"quit">>, <<>>, 0, NoErr)
              [] out = "err" -> TsshMainReturns(4, ErrDestination)
    /\ UNCHANGED <<sshState, bgVars, resVars, pumpVars>>

\* lines 234-244: background(&args, dest) returns (parent, err), or never returns
\* when this process is the monitor; out is "child", "parent", "err" or "monitor"
TsshMain_background(out) ==
    /\ mainPc = "background"
    /\ IF ~Background
       THEN out = "child" /\ TsshMainGoes("sshStart")
       ELSE CASE out = "child" -> TsshMainGoes("sshStart")
              [] out = "parent" -> TsshMainReturnsAfter(<<"parent">>, <<>>, 0, NoErr)
              [] out = "err" -> TsshMainReturns(5, ErrBackground)
              [] out = "monitor" -> TsshMainGoes("monitoring")
    /\ UNCHANGED <<sshState, bgVars, resVars, pumpVars>>

\* line 249: sshStart(&args) is called
TsshMain_sshStart ==
    /\ mainPc = "sshStart"
    /\ sshPc = "idle"
    /\ sshPc' = "parse"
    /\ mainPc' = "inSshStart"
    /\ log' = Append(log, "sshStart")
    /\ UNCHANGED <<err, exitCode, mainDefers, stderrOut>>
    /\ UNCHANGED <<Command, Argument, Option, config, isTerminal, DisableTTY,
                   ForceTTY, rcResult, parsed, loginCalls, sshErr>>
    /\ UNCHANGED <<regVars, sshState, bgVars, pumpVars>>

\* lines 249-252: sshStart has returned
TsshMain_sshStartReturned ==
    /\ mainPc \in {"inSshStart", "sshStartReturns"}
    /\ sshPc = "returned"
    /\ IF sshErr # NoErr THEN TsshMainReturns(6, sshErr) ELSE TsshMainReturns(0, NoErr)
    /\ UNCHANGED <<sshState, bgVars, resVars, pumpVars>>

\* what sshStart and enableTrzsz never touch
tsshState == <<mainInputs, err, exitCode, mainDefers, stderrOut, dials>>

\* the arguments of sshStart and what lines 256-266 left
resRest == <<Command, Argument, Option, config, isTerminal, DisableTTY, ForceTTY,
             rcResult, parsed, loginCalls>>

\* return e from sshStart after the events of this step: the deferred calls run,
\* last in first out (resetStdin, session.Close, client.Close)
sshStartReturns(e, events) ==
    /\ sshPc' = "returned"
    /\ sshErr' = e
    /\ mainPc' = "sshStartReturns"
    /\ sshDefers' = <<>>
    /\ LET run == Reverse(sshDefers)
       IN /\ log' = log \o events \o run
          /\ stdinRaw' = IF Count(run, "resetStdin") > 0 THEN FALSE ELSE stdinRaw
          /\ session' = IF Count(run, "session.Close") > 0 THEN "closed" ELSE session
          /\ client' = IF Count(run, "client.Close") > 0 THEN "closed" ELSE client

\* sshStart goes on to the statement at label after the events of this step
sshStartGoes(label, events) ==
    /\ mainPc' = label
    /\ log' = log \o events
    /\ UNCHANGED <<sshPc, sshErr>>

\* sshLogin gives a session unless nothing is to be run on the remote side
SessionOptional == StdioForward # "" \/ NoCommand

\* lines 267-270: login succeeded; defer client.Close() and session.Close()
sshStart_Logined(hasSession) ==
    /\ mainPc = "inSshStart"
    /\ sshPc = "logined"
    /\ ~hasSession => SessionOptional
    /\ client' = "open"
    /\ session' = IF hasSession THEN "open" ELSE "nil"
    /\ sshDefers' = IF hasSession THEN <<"client.Close", "session.Close">>
                                  ELSE <<"client.Close">>
    /\ sshStartGoes("stdioForward", <<"logined">>)
    /\ UNCHANGED <<stdinRaw, wiringVars>>
    /\ UNCHANGED <<regVars, tsshState, resRest, bgVars, pumpVars>>

\* a plausible slip: the no-command path forgets cleanupForGC()
CallsCleanupForGC_NotNoCommand(path) == path # "noCommand"

\* lines 279, 286, 320: each path that blocks calls cleanupForGC() first
CallsCleanupForGC(path) == path \in {"stdioForward", "noCommand", "session"}

\* cleanupForGC() and the wait that follows it on a path
CleanupThenWait(path, wait) ==
    IF CallsCleanupForGC(path)
    THEN /\ CallDrain("afterLogin")
         /\ sshStartGoes(wait, <<"cleanupForGC", wait>>)
    ELSE /\ UNCHANGED regVars
         /\ sshStartGoes(wait, <<wait>>)

\* a plausible slip: the no-command test comes first
ShortCircuit_NoCommandFirst(forward, noCommand) ==
    IF noCommand THEN "noCommand" ELSE IF forward # "" THEN "stdioForward" ELSE "none"

\* lines 273, 285: the order of the two short-circuits
ShortCircuit(forward, noCommand) ==
    IF forward # "" THEN "stdioForward" ELSE IF noCommand THEN "noCommand" ELSE "none"

\* lines 272-289: stdio forward (ok: stdioForward succeeded), else no command
sshStart_ShortCircuit(ok) ==
    /\ mainPc = "stdioForward"
    /\ LET path == ShortCircuit(StdioForward, NoCommand)
       IN CASE path = "stdioForward" ->
                 IF ok
                 THEN /\ CleanupThenWait("stdioForward", "wg.Wait")
                      /\ UNCHANGED <<sshDefers, stdinRaw, client, session>>
                 ELSE /\ sshStartReturns(ErrStdioForward, <<>>)
                      /\ UNCHANGED regVars
            [] path = "noCommand" ->
                 /\ ok
                 /\ CleanupThenWait("noCommand", "client.Wait")
                 /\ UNCHANGED <<sshDefers, stdinRaw, client, session>>
            [] path = "none" ->
                 /\ ok
                 /\ sshStartGoes("start", <<>>)
                 /\ UNCHANGED <<sshDefers, stdinRaw, client, session>>
                 /\ UNCHANGED regVars
    /\ UNCHANGED wiringVars
    /\ UNCHANGED <<tsshState, resRest, bgVars, pumpVars>>

\* lines 280-281, 287-288, 321-325: a wait returns; after session.Wait() a
\* background instance waits for the client too
sshStart_WaitReturns ==
    /\ mainPc \in {"wg.Wait", "client.Wait", "session.Wait"}
    /\ IF mainPc = "session.Wait" /\ Background
       THEN /\ sshStartGoes("client.Wait", <<"client.Wait">>)
            /\ UNCHANGED <<sshDefers, stdinRaw, client, session>>
       ELSE sshStartReturns(NoErr, <<>>)
    /\ UNCHANGED <<regVars, wiringVars>>
    /\ UNCHANGED <<tsshState, resRest, bgVars, pumpVars>>

\* lines 291-303: execRemoteTools, then session.Start(command) or session.Shell()
sshStart_Start(ok) ==
    /\ mainPc = "start"
    /\ LET call == IF parsed.cmd # EmptyStr THEN "session.Start" ELSE "session.Shell"
           e == IF parsed.cmd # EmptyStr THEN ErrStartCommand(parsed.cmd)
                                         ELSE ErrStartShell
       IN IF ok
          THEN /\ sshStartGoes("makeStdinRaw", <<"execRemoteTools", call>>)
               /\ UNCHANGED <<sshDefers, stdinRaw, client, session>>
          ELSE sshStartReturns(e, <<"execRemoteTools", call>>)
    /\ UNCHANGED <<regVars, wiringVars>>
    /\ UNCHANGED <<tsshState, resRest, bgVars, pumpVars>>

\* lines 305-312: make stdin raw, defer resetStdin(state)
sshStart_makeStdinRaw(ok) ==
    /\ mainPc = "makeStdinRaw"
    /\ IF isTerminal /\ parsed.tty
       THEN IF ok
            THEN /\ stdinRaw' = TRUE
                 /\ sshDefers' = Append(sshDefers, "resetStdin")
                 /\ sshStartGoes("enableTrzsz", <<"makeStdinRaw">>)
                 /\ UNCHANGED <<client, session>>
            ELSE sshStartReturns(ErrMakeStdinRaw, <<"makeStdinRaw">>)
       ELSE /\ ok
            /\ sshStartGoes("enableTrzsz", <<>>)
            /\ UNCHANGED <<sshDefers, stdinRaw, client, session>>
    /\ UNCHANGED <<regVars, wiringVars>>
    /\ UNCHANGED <<tsshState, resRest, bgVars, pumpVars>>

\* lines 319-321: cleanupForGC(), then session.Wait()
sshStart_Cleanup ==
    /\ mainPc = "cleanupForGC"
    /\ CleanupThenWait("session", "session.Wait")
    /\ UNCHANGED <<sshDefers, stdinRaw, client, session, wiringVars>>
    /\ UNCHANGED <<tsshState, resRest, bgVars, pumpVars>>

\* ss.serverIn, ss.serverOut, ss.serverErr: the streams sshLogin gave, none nil
ServerStreams == Streams

\* wrapStdIO(serverIn, serverOut, serverErr, tty), lines 87-95: a forwardIO
\* goroutine is started on each stream that is not nil
wrapStdIO(c, given) ==
    [s \in Streams |-> IF s \in given THEN Append(c[s], "pump") ELSE c[s]]

\* trzsz.NewTrzszRelay / trzsz.NewTrzszFilter(os.Stdin, os.Stdout, ss.serverIn,
\* ss.serverOut, ...): the filter takes stdin and stdout
FilterTakes(c, kind) ==
    [s \in Streams |-> IF s \in {"stdin", "stdout"} THEN Append(c[s], kind) ELSE c[s]]

\* strings.ToLower(getExOptionConfig(args, "EnableTrzsz")) == "no"
TrzszDisabled(v) == ToLower(v) = s_no

\* a plausible slip: && for ||
RunsAsRelay_Both(relay, nogui) == relay /\ nogui

\* args.Relay || isNoGUI()
RunsAsRelay(relay, nogui) == relay \/ nogui

\* enableTrzsz returns nil to line 315
enableTrzszReturnsNil ==
    /\ sshStartGoes("cleanupForGC", <<>>)
    /\ UNCHANGED <<sshDefers, stdinRaw, client, session>>

\* main.go 314-315 and part_001 99-103: not terminal or not tty
enableTrzsz_NotTerminalOrNotTTY ==
    /\ mainPc = "enableTrzsz"
    /\ evaluated' = evaluated \cup {"isTerminal"}
                        \cup (IF isTerminal THEN {"ss.tty"} ELSE {})
    /\ IF ~isTerminal \/ ~parsed.tty
       THEN /\ consumers' = wrapStdIO(consumers, ServerStreams)
            /\ sshStartGoes("cleanupForGC", <<"enableTrzsz">>)
       ELSE /\ sshStartGoes("EnableTrzsz", <<"enableTrzsz">>)
            /\ UNCHANGED consumers
    /\ UNCHANGED <<nResize, connector, sshDefers, stdinRaw, client, session>>
    /\ UNCHANGED <<regVars, tsshState, resRest, bgVars, pumpVars>>

\* part_001 105-110: trzsz is disabled
enableTrzsz_Disabled ==
    /\ mainPc = "EnableTrzsz"
    /\ evaluated' = evaluated \cup {"EnableTrzsz"}
    /\ IF TrzszDisabled(EnableTrzsz)
       THEN /\ consumers' = wrapStdIO(consumers, ServerStreams)
            /\ nResize' = nResize + 1
            /\ enableTrzszReturnsNil
       ELSE /\ sshStartGoes("wrapStdIO(stderr)", <<>>)
            /\ UNCHANGED <<consumers, nResize, sshDefers, stdinRaw, client, session>>
    /\ UNCHANGED connector
    /\ UNCHANGED <<regVars, tsshState, resRest, bgVars, pumpVars>>

\* part_001 112-116: wrapStdIO(nil, nil, ss.serverErr, ss.tty)
enableTrzsz_WrapStderr ==
    /\ mainPc = "wrapStdIO(stderr)"
    /\ consumers' = wrapStdIO(consumers, ServerStreams \cap {"stderr"})
    /\ sshStartGoes("Relay", <<>>)
    /\ UNCHANGED <<nResize, connector, evaluated, sshDefers, stdinRaw, client, session>>
    /\ UNCHANGED <<regVars, tsshState, resRest, bgVars, pumpVars>>

\* part_001 118-131: run as a relay
enableTrzsz_Relay ==
    /\ mainPc = "Relay"
    /\ evaluated' = evaluated \cup {"Relay"} \cup (IF Relay THEN {} ELSE {"isNoGUI"})
    /\ IF RunsAsRelay(Relay, noGUI)
       THEN /\ consumers' = FilterTakes(consumers, "relay")
            /\ nResize' = nResize + 1
            /\ connector' = "relay"
            /\ enableTrzszReturnsNil
       ELSE /\ sshStartGoes("getTerminalSize", <<>>)
            /\ UNCHANGED <<consumers, nResize, connector, sshDefers, stdinRaw,
                           client, session>>
    /\ UNCHANGED <<regVars, tsshState, resRest, bgVars, pumpVars>>

\* part_001 133-170 and main.go 315-317: the terminal width (ok: it was read),
\* the filter, the resize listener and the tunnel connector
enableTrzsz_Filter(ok) ==
    /\ mainPc = "getTerminalSize"
    /\ evaluated' = evaluated \cup {"getTerminalSize"}
    /\ IF ok
       THEN /\ consumers' = FilterTakes(consumers, "filter")
            /\ nResize' = nResize + 1
            /\ connector' = "filter"
            /\ enableTrzszReturnsNil
       ELSE /\ sshStartReturns(ErrTerminalSize, <<>>)
            /\ UNCHANGED <<consumers, nResize, connector>>
    /\ UNCHANGED <<regVars, tsshState, resRest, bgVars, pumpVars>>

\* part_001 126-129, 165-168: the filter calls the tunnel connector, which dials
\* through ss.client, whatever state the client is in
TunnelConnector ==
    /\ connector # "none"
    /\ mainPc # "exited"
    /\ client \notin dials
    /\ dials' = dials \cup {client}
    /\ UNCHANGED <<mainInputs, mainPc, err, exitCode, mainDefers, sshDefers, log,
                   stderrOut, stdinRaw, client, session, wiringVars>>
    /\ UNCHANGED <<regVars, bgVars, resVars, pumpVars>>

\* the callbacks registered in this model of a run
Hooks == {"A", "B"}

OnExitHooks == {"A"}

\* sshLogin and what it calls register their cleanups
LoginRegisters ==
    /\ mainPc = "inSshStart"
    /\ sshPc = "login"
    /\ \/ \E f \in OnExitHooks : Len(onExitFuncs) < MaxHooks - 1 /\ RegisterOnExit(f)
       \/ \E f \in Hooks : Len(cleanupAfterLogined) < MaxHooks /\ RegisterAfterLogined(f)

TsshMain ==
    \/ TsshMain_Enter
    \/ \E ok \in BOOLEAN : TsshMain_initUserConfig(ok)
    \/ \E ok \in BOOLEAN : TsshMain_setupVirtualTerminal(ok)
    \/ \E code \in LocalToolCodes, quit \in BOOLEAN : TsshMain_execLocalTools(code, quit)
    \/ \E out \in {"ok", "quit", "quit+err", "err"} : TsshMain_chooseAlias(out)
    \/ \E out \in {"child", "parent", "err", "monitor"} : TsshMain_background(out)
    \/ TsshMain_sshStart
    \/ TsshMain_sshStartReturned

sshStart ==
    \/ mainPc = "inSshStart" /\ sshStart_Parse
    \/ \E ok \in BOOLEAN : mainPc = "inSshStart" /\ sshStart_Login(ok)
    \/ \E hasSession \in BOOLEAN : sshStart_Logined(hasSession)
    \/ \E ok \in BOOLEAN : sshStart_ShortCircuit(ok)
    \/ \E ok \in BOOLEAN : sshStart_Start(ok)
    \/ \E ok \in BOOLEAN : sshStart_makeStdinRaw(ok)
    \/ sshStart_Cleanup
    \/ sshStart_WaitReturns

enableTrzsz ==
    \/ enableTrzsz_NotTerminalOrNotTTY
    \/ enableTrzsz_Disabled
    \/ enableTrzsz_WrapStderr
    \/ enableTrzsz_Relay
    \/ \E ok \in BOOLEAN : enableTrzsz_Filter(ok)

NextMain ==
    \/ TsshMain
    \/ sshStart
    \/ enableTrzsz
    \/ LoginRegisters
    \/ TunnelConnector

(***************************************************************************)
(* Specifications.                                                         *)
(***************************************************************************)
InitRegistry == IdleRegistry /\ IdleBackground /\ IdleResolve /\ IdlePump /\ IdleMain

NextRegistry ==
    \/ \E f \in Callbacks : RegisterOnExit(f)
    \/ \E f \in Callbacks : RegisterAfterLogined(f)
    \/ cleanupOnExit
    \/ cleanupForGC

SpecRegistry == InitRegistry /\ [][NextRegistry]_vars

\* every argument vector of up to MaxArgs strings, any destination
InitRelaunch ==
    /\ IdleRegistry /\ IdleResolve /\ IdlePump /\ IdleMain
    /\ StartOfBackground(FewStarts, SeqsUpTo(Strs, MaxArgs) \ {<<>>}, Strs \cup {""})

SpecRelaunch == InitRelaunch /\ [][NextBackground]_vars

\* one argument vector, a long run of children
InitBackoff ==
    /\ IdleRegistry /\ IdleResolve /\ IdlePump /\ IdleMain
    /\ StartOfBackground(MaxStarts, {<<"p", "a">>}, {"a"})
    /\ Reconnect = TRUE

SpecBackoff == InitBackoff /\ [][NextBackground]_vars

\* a monitor and a few children; a process that can take a step of background()
\* takes it in the end: the loop only blocks in cmd.Wait() and time.Sleep()
InitMonitor ==
    /\ IdleRegistry /\ IdleResolve /\ IdlePump /\ IdleMain
    /\ StartOfBackground(FewStarts, {<<"p", "a">>, <<"p", "a", "b">>}, {"a"})
    /\ Reconnect = TRUE

SpecMonitor ==
    /\ InitMonitor
    /\ [][NextBackground]_vars
    /\ \A p \in Procs : WF_vars(background(p))

InitResolve == IdleRegistry /\ IdleBackground /\ IdlePump /\ IdleMain /\ StartOfResolve

SpecResolve == InitResolve /\ [][NextResolve]_vars

InitPump == IdleRegistry /\ IdleBackground /\ IdleResolve /\ IdleMain /\ StartOfPump

SpecPump == InitPump /\ [][NextPump]_vars

\* one run of TsshMain: any flags; sshStart is called with a command or none
InitMain ==
    /\ IdleRegistry /\ IdleBackground /\ IdlePump
    /\ StartOfMain
    /\ Command \in {EmptyStr, s_ls}
    /\ Argument = <<>>
    /\ Option = <<>>
    /\ config = [k \in {k_RemoteCommand, k_RequestTTY} |-> EmptyStr]
    /\ isTerminal \in BOOLEAN
    /\ DisableTTY \in BOOLEAN
    /\ ForceTTY \in BOOLEAN
    /\ sshPc = "idle"
    /\ rcResult = NoResult
    /\ parsed = NoResult
    /\ loginCalls = 0
    /\ sshErr = NoErr

SpecMain == InitMain /\ [][NextMain]_vars

(***************************************************************************)
(* C1: draining a registry invokes every callback registered when the      *)
(* drain began exactly once, in strict reverse order of registration: at   *)
(* every turn of the loop the callbacks invoked so far are the reverse of  *)
(* the registry's tail above i, and at the end the reverse of the whole    *)
(* registry (A, B, C registered: C, B, A invoked).                         *)
(***************************************************************************)
C1_ReverseOrder ==
    \A r \in Registries :
        /\ drainPc[r] = "loop" =>
              /\ drainI[r] \in 0..Len(atDrain[r])
              /\ invoked[r] = Reverse(SubSeq(atDrain[r], drainI[r] + 1, Len(atDrain[r])))
        /\ drainPc[r] = "done" =>
              /\ invoked[r] = Reverse(atDrain[r])
              /\ Len(invoked[r]) = Len(atDrain[r])

C1_Witness ==
    /\ drainPc["onExit"] = "done"
    /\ atDrain["onExit"] = <<"A", "B", "C">>
    /\ invoked["onExit"] = <<"C", "B", "A">>
    /\ drainPc["afterLogin"] = "done"
    /\ atDrain["afterLogin"] = <<"B", "A", "B">>
    /\ invoked["afterLogin"] = <<"B", "A", "B">>


(***************************************************************************)
(* C2: in the monitor loop the delay slept between a child's exit and the  *)
(* next start is min(k, 10) seconds, k the number of consecutive children, *)
(* ending with the one that just exited, that lived under 10 seconds;      *)
(* after a child that lived 10 seconds or more the delay is 0 and nothing  *)
(* is slept.  The delay never exceeds 10 seconds.                          *)
(***************************************************************************)
RECURSIVE ShortRun(_)
ShortRun(h) ==
    IF h = <<>> THEN 0
    ELSE IF h[Len(h)] < 10 THEN 1 + ShortRun(SubSeq(h, 1, Len(h) - 1))
    ELSE 0

C2_Backoff ==
    \A p \in Procs :
        lifetimes[p] # <<>> =>
            LET h == lifetimes[p]
                want == IF h[Len(h)] < 10 THEN Min(ShortRun(h), 10) ELSE 0
            IN /\ lastSleep[p] = want
               /\ sleepTime[p] = want
               /\ lastSleep[p] <= 10

C2_Witness ==
    \E p \in Procs :
        /\ Len(lifetimes[p]) = 12
        /\ lifetimes[p][1] = 10
        /\ ShortRun(lifetimes[p]) = 11
        /\ lastSleep[p] = 10
        /\ sleepTime[p] = 10
        /\ pc[p] = "start"

(***************************************************************************)
(* C3: when the original destination D occurs exactly once in the argument *)
(* vector and the resolved destination D' differs from D, the vector       *)
(* handed to the child is the original one with that element replaced by   *)
(* D': the same length, every other element unchanged.                     *)
(***************************************************************************)
C3_ReplacesOnce ==
    \A p \in Procs :
        ( /\ cmd[p] # NoCmd
          /\ Destination[p] # ""
          /\ dest[p] # Destination[p]
          /\ Cardinality({i \in DOMAIN osArgs[p] : osArgs[p][i] = Destination[p]}) = 1 )
        => /\ Len(cmd[p].Args) = Len(osArgs[p])
           /\ \A i \in DOMAIN osArgs[p] :
                 cmd[p].Args[i] = IF osArgs[p][i] = Destination[p]
                                  THEN dest[p] ELSE osArgs[p][i]

C3_Witness ==
    /\ cmd[1] # NoCmd
    /\ osArgs[1] = <<"p", "b", "a">>
    /\ Destination[1] = "a"
    /\ dest[1] = "b"
    /\ cmd[1].Args = <<"p", "b", "b">>
    /\ pc[2] = "entry"

(***************************************************************************)
(* C4.  Occurrences(p) counts the original destination in the argument     *)
(* vector; Constructed(p): the process went through lines 47-75.           *)
(***************************************************************************)
Occurrences(p) == Cardinality({i \in DOMAIN osArgs[p] : osArgs[p][i] = Destination[p]})

Constructed(p) == pc[p] \notin {"unborn", "entry"} /\ BACKGROUND \notin environ[p]

(***************************************************************************)
(* C4 as claimed: whenever the original destination occurs zero times or   *)
(* two or more times in the argument vector, relaunch construction fails   *)
(* with an explicit error and no child is started.  Stated for a           *)
(* destination given on the command line, which is one of the arguments.   *)
(***************************************************************************)
C4_AsClaimed ==
    \A p \in Procs :
        ( /\ Constructed(p)
          /\ Destination[p] # ""
          /\ Occurrences(p) >= 1
          /\ Occurrences(p) # 1 )
        => /\ bgErr[p] = "replace"
           /\ cmd[p] = NoCmd

(***************************************************************************)
(* C4 amended: whenever the original destination is not empty, differs     *)
(* from the resolved destination and occurs zero times or two or more      *)
(* times in the argument vector, relaunch construction fails with the      *)
(* explicit error, substitutes nothing and starts no child.                *)
(***************************************************************************)
C4_RefusedWhenAmbiguous ==
    \A p \in Procs :
        ( /\ Constructed(p)
          /\ Destination[p] # ""
          /\ Destination[p] # dest[p]
          /\ Occurrences(p) # 1 )
        => /\ pc[p] \in {"error", "exited"}
           /\ bgErr[p] = "replace"
           /\ newArgs[p] = osArgs[p]
           /\ cmd[p] = NoCmd
           /\ nStarts[p] = 0
           /\ p + 1 \in Procs => pc[p + 1] = "unborn"

C4_Witness ==
    /\ pc[1] = "error"
    /\ bgErr[1] = "replace"
    /\ osArgs[1] = <<"p", "a", "a">>
    /\ Destination[1] = "a"
    /\ dest[1] = "b"
    /\ newArgs[1] = <<"p", "a", "a">>
    /\ pc[2] = "unborn"

(***************************************************************************)
(* C5.  EnvBuilt(p): the process has built an environment for a child.     *)
(***************************************************************************)
EnvBuilt(p) == Constructed(p)

Alive(p) == pc[p] \notin {"unborn", "exited"}

(***************************************************************************)
(* C5 as claimed: no environment background() builds holds both the        *)
(* background-instance marker and the monitor marker, and no two live      *)
(* re-executed processes carry the background-instance marker.             *)
(***************************************************************************)
C5_AsClaimed ==
    /\ \A p \in Procs :
          EnvBuilt(p) => ~(BACKGROUND \in env[p] /\ BG_MONITOR \in env[p])
    /\ liveBG <= 1

(***************************************************************************)
(* C5 amended: background() adds exactly one of the two markers to the     *)
(* environment it inherited; the two markers are both present exactly in   *)
(* the environments the monitor builds (its child inherits the monitor     *)
(* marker); at most one live re-executed process carries the               *)
(* background-instance marker at any time, and it is the monitored child,  *)
(* never the monitor.                                                      *)
(***************************************************************************)
C5_Markers ==
    /\ \A p \in Procs :
          EnvBuilt(p) =>
             /\ environ[p] \subseteq env[p]
             /\ Cardinality(env[p] \ environ[p]) = 1
             /\ (BACKGROUND \in env[p] /\ BG_MONITOR \in env[p])
                   <=> BG_MONITOR \in environ[p]
             /\ monitor[p] => BACKGROUND \in env[p]
    /\ \A p \in Procs : (Alive(p) /\ monitor[p]) => BACKGROUND \notin environ[p]
    /\ liveBG <= 1
    /\ Cardinality({p \in Procs : p > 1 /\ Alive(p) /\ BACKGROUND \in environ[p]}) <= 1

C5_Witness ==
    /\ Reconnect
    /\ pc[2] = "wait"
    /\ environ[2] = {BG_MONITOR}
    /\ pc[3] = "session"
    /\ environ[3] = {BG_MONITOR, BACKGROUND}
    /\ liveBG = 1
    /\ nStarts[2] = 2

(***************************************************************************)
(* C6 - C9.  Resolved: sshStart has called parseCmdAndTTY.  ConfiguredRC:  *)
(* the configured RemoteCommand, the first -o RemoteCommand when there is  *)
(* one and the configuration file's otherwise.                             *)
(***************************************************************************)
Resolved == sshPc \notin {"idle", "parse"}

OptionRC ==
    IF DOMAIN Option # {} /\ ToLower(k_RemoteCommand) \in DOMAIN Option
    THEN Option[ToLower(k_RemoteCommand)][1]
    ELSE EmptyStr

ConfiguredRC == IF OptionRC # EmptyStr THEN OptionRC ELSE config[k_RemoteCommand]

(***************************************************************************)
(* C6 as claimed: with no inline command and a configured RemoteCommand    *)
(* "none" in any letter case, from a -o option or from the configuration   *)
(* file, parseRemoteCommand returns the empty string and no error.         *)
(***************************************************************************)
C6_AsClaimed ==
    (Resolved /\ Command = EmptyStr /\ ToLower(ConfiguredRC) = s_none)
    => (rcResult.cmd = EmptyStr /\ rcResult.err = NoErr)

(***************************************************************************)
(* C7 as claimed: with an inline command and a configured RemoteCommand    *)
(* other than "none", from a -o option or from the configuration file,     *)
(* command resolution fails with an error and yields no command, and       *)
(* sshStart returns before login.                                          *)
(***************************************************************************)
C7_AsClaimed ==
    ( /\ Resolved
      /\ Command # EmptyStr
      /\ ConfiguredRC # EmptyStr
      /\ ToLower(ConfiguredRC) # s_none )
    => /\ rcResult.err # NoErr
       /\ rcResult.cmd = EmptyStr
       /\ sshPc = "returned"
       /\ loginCalls = 0

(***************************************************************************)
(* C8 as claimed: with DisableTTY and ForceTTY both set parseCmdAndTTY     *)
(* fails with the error naming the -t / -T conflict, whatever the inline   *)
(* command, the configured RemoteCommand and the RequestTTY value.         *)
(***************************************************************************)
C8_AsClaimed ==
    (Resolved /\ DisableTTY /\ ForceTTY) => parsed.err = ErrTTYConflict

(***************************************************************************)
(* C8 amended: with DisableTTY and ForceTTY both set parseCmdAndTTY fails, *)
(* whatever the inline command, the configured RemoteCommand and the       *)
(* RequestTTY value; the error names the -t / -T conflict whenever command *)
(* resolution succeeded, and is command resolution's error otherwise.      *)
(***************************************************************************)
C8_ConflictFails ==
    (Resolved /\ DisableTTY /\ ForceTTY)
    => /\ parsed.err # NoErr
       /\ rcResult.err = NoErr => parsed.err = ErrTTYConflict
       /\ rcResult.err # NoErr => parsed.err = rcResult.err

C8_Witness ==
    /\ Resolved
    /\ DisableTTY /\ ForceTTY
    /\ Command = s_ls
    /\ Argument = <<s_dashl>>
    /\ config[k_RequestTTY] = s_maybe
    /\ parsed.cmd = <<"l", "s", " ", "-", "l">>
    /\ parsed.err = ErrTTYConflict
    /\ sshPc = "returned"
    /\ loginCalls = 0

(***************************************************************************)
(* C9.  The reference of the claim: DisableTTY gives false, ForceTTY true; *)
(* otherwise RequestTTY, in any letter case, "" or "auto" gives            *)
(* (interactive and no command), "no" false, "force" true, "yes"           *)
(* interactive, and any other value an error naming that value.            *)
(***************************************************************************)
C9_Reference ==
    LET v == ToLower(config[k_RequestTTY])
    IN CASE DisableTTY -> [tty |-> FALSE, err |-> NoErr]
         [] ~DisableTTY /\ ForceTTY -> [tty |-> TRUE, err |-> NoErr]
         [] OTHER ->
              CASE v \in {EmptyStr, s_auto} ->
                      [tty |-> isTerminal /\ rcResult.cmd = EmptyStr, err |-> NoErr]
                [] v = s_no -> [tty |-> FALSE, err |-> NoErr]
                [] v = s_force -> [tty |-> TRUE, err |-> NoErr]
                [] v = s_yes -> [tty |-> isTerminal, err |-> NoErr]
                [] OTHER -> [tty |-> FALSE,
                             err |-> [msg |-> "unknown RequestTTY option: %s",
                                      value |-> config[k_RequestTTY]]]

(***************************************************************************)
(* C9 as claimed: with at most one of DisableTTY / ForceTTY set, the pty   *)
(* decision of parseCmdAndTTY is the reference's, for every input.         *)
(***************************************************************************)
C9_AsClaimed ==
    (Resolved /\ ~(DisableTTY /\ ForceTTY))
    => /\ parsed.tty = C9_Reference.tty
       /\ C9_Reference.err # NoErr => parsed.err = C9_Reference.err

(***************************************************************************)
(* C9 amended: with at most one of DisableTTY / ForceTTY set, the pty      *)
(* decision of parseCmdAndTTY is the reference's for every input on which  *)
(* command resolution succeeds; when it fails parseCmdAndTTY returns its   *)
(* error and requests no pty.                                              *)
(***************************************************************************)
C9_PtyDecision ==
    (Resolved /\ ~(DisableTTY /\ ForceTTY))
    => /\ rcResult.err = NoErr =>
             (parsed.tty = C9_Reference.tty /\ parsed.err = C9_Reference.err)
       /\ rcResult.err # NoErr => (parsed.tty = FALSE /\ parsed.err = rcResult.err)

C9_Witness ==
    /\ Resolved
    /\ ~DisableTTY /\ ~ForceTTY
    /\ config[k_RequestTTY] = s_YES
    /\ isTerminal
    /\ Command = s_ls
    /\ parsed.cmd = s_ls
    /\ parsed.tty = TRUE
    /\ parsed.err = NoErr
    /\ sshPc = "logined"

(***************************************************************************)
(* C10 as claimed: when end-of-input has closed the sink, the bytes        *)
(* written to it are, however the reads split the delivered sequence:      *)
(* on Windows without a pty the sequence with every \r\n replaced by \n    *)
(* (input direction) or with every \n replaced by \r\n (output             *)
(* direction), and the very sequence in every other case.                  *)
(***************************************************************************)
C10_AsClaimed ==
    (pumpPc = "closed" /\ endedBy = "eof")
    => sink = IF win /\ ~tty
              THEN IF input THEN ReplaceAll(delivered, <<13, 10>>, <<10>>)
                            ELSE ReplaceAll(delivered, <<10>>, <<13, 10>>)
              ELSE delivered

(***************************************************************************)
(* C11 - C18 are about one run of TsshMain.  Wired: enableTrzsz has        *)
(* returned nil.  WiringIs(m): the wiring committed is m.                  *)
(***************************************************************************)
InEnableTrzsz == mainPc \in {"EnableTrzsz", "wrapStdIO(stderr)", "Relay", "getTerminalSize"}

Wired == Count(log, "enableTrzsz") > 0 /\ ~InEnableTrzsz /\ sshErr # ErrTerminalSize

WiringIs(m) ==
    CASE m = "raw" ->
            /\ consumers = [s \in Streams |-> <<"pump">>]
            /\ nResize = 0 /\ connector = "none"
      [] m = "passthrough" ->
            /\ consumers = [s \in Streams |-> <<"pump">>]
            /\ nResize = 1 /\ connector = "none"
      [] m = "relay" ->
            /\ consumers = [s \in Streams |-> IF s = "stderr" THEN <<"pump">> ELSE <<"relay">>]
            /\ nResize = 1 /\ connector = "relay"
      [] m = "direct" ->
            /\ consumers = [s \in Streams |-> IF s = "stderr" THEN <<"pump">> ELSE <<"filter">>]
            /\ nResize = 1 /\ connector = "filter"

(***************************************************************************)
(* C11: a successful enableTrzsz commits exactly one wiring: raw iff the   *)
(* terminal is not interactive or no pty was requested; otherwise          *)
(* passthrough iff EnableTrzsz is "no" (in any letter case); otherwise     *)
(* relay iff the relay flag is set or there is no GUI; otherwise direct.   *)
(* In the committed wiring each of the three session streams has exactly   *)
(* one consumer, a pump or the filter.                                     *)
(***************************************************************************)
C11_OneWiring ==
    Wired =>
       /\ WiringIs(IF ~isTerminal \/ ~parsed.tty THEN "raw"
                   ELSE IF ToLower(EnableTrzsz) = s_no THEN "passthrough"
                   ELSE IF Relay \/ noGUI THEN "relay"
                   ELSE "direct")
       /\ Cardinality({m \in {"raw", "passthrough", "relay", "direct"} : WiringIs(m)}) = 1
       /\ \A s \in Streams : Len(consumers[s]) = 1

C11_Witness ==
    /\ Wired
    /\ isTerminal /\ parsed.tty
    /\ EnableTrzsz = s_yes
    /\ ~Relay /\ noGUI
    /\ WiringIs("relay")
    /\ mainPc = "session.Wait"

(***************************************************************************)
(* C12: on every return path of TsshMain (every exit code 0 through 6) the *)
(* always registry is drained exactly once, every callback registered      *)
(* being invoked, and the drain is the last thing done: it comes after     *)
(* sshStart, if it ran, has returned.  Nothing drains it before.           *)
(***************************************************************************)
C12_DrainedOnExit ==
    /\ mainPc = "exited" =>
          /\ exitCode \in 0..6
          /\ Count(log, "cleanupOnExit") = 1
          /\ log[Len(log)] = "cleanupOnExit"
          /\ drainPc["onExit"] = "done"
          /\ invoked["onExit"] = Reverse(onExitFuncs)
          /\ Count(log, "sshStart") > 0 => sshPc = "returned"
    /\ mainPc # "exited" =>
          /\ Count(log, "cleanupOnExit") = 0
          /\ invoked["onExit"] = <<>>

C12_Witness ==
    /\ mainPc = "exited"
    /\ exitCode = 6
    /\ sshErr = ErrStartShell
    /\ onExitFuncs = <<"A">>
    /\ invoked["onExit"] = <<"A">>
    /\ Count(log, "client.Close") = 1

(***************************************************************************)
(* C13.  Fatal: the run ended with one of the error codes; ErrLines: the   *)
(* error messages written to the error stream (the usage text of code 3    *)
(* is not one).  Before(a, b): a call of a precedes a call of b.           *)
(***************************************************************************)
Fatal == exitCode \in {1, 2, 4, 5, 6} /\ Count(log, "execLocalTools") = 0

ErrLines == SelectSeq(stderrOut, LAMBDA line : line # Usage)

Before(a, b) == \E i, j \in DOMAIN log : i < j /\ log[i] = a /\ log[j] = b

C14_AsClaimed ==
    (sshPc = "returned" /\ Count(log, "logined") > 0)
    => /\ Count(log, "cleanupForGC") >= 1
       /\ drainPc["afterLogin"] = "done"
       /\ invoked["afterLogin"] = Reverse(cleanupAfterLogined)

(***************************************************************************)
(* C15: on each of the three paths where sshStart blocks (wg.Wait for the  *)
(* stdio forward, client.Wait in no-command mode, session.Wait after the   *)
(* wiring) the after-login registry has been drained, every callback       *)
(* invoked, before the wait begins; it is drained at most once in a run,   *)
(* and never before login has succeeded.                                   *)
(***************************************************************************)
C15_DrainedBeforeWait ==
    /\ \A i \in DOMAIN log :
          ( \/ log[i] \in {"wg.Wait", "session.Wait"}
            \/ log[i] = "client.Wait" /\ Count(log, "session.Wait") = 0 )
          => /\ i > 1
             /\ log[i - 1] = "cleanupForGC"
    /\ mainPc \in {"wg.Wait", "client.Wait", "session.Wait"} =>
          /\ Count(log, "cleanupForGC") = 1
          /\ drainPc["afterLogin"] = "done"
          /\ invoked["afterLogin"] = Reverse(cleanupAfterLogined)
    /\ Count(log, "cleanupForGC") <= 1
    /\ Count(log, "cleanupForGC") = 1 => Before("logined", "cleanupForGC")
    /\ Count(log, "cleanupForGC") = 0 => invoked["afterLogin"] = <<>>

C15_Witness ==
    /\ mainPc = "client.Wait"
    /\ NoCommand /\ StdioForward = ""
    /\ cleanupAfterLogined = <<"A", "B">>
    /\ invoked["afterLogin"] = <<"B", "A">>
    /\ Count(log, "session.Wait") = 0

(***************************************************************************)
(* C16: when a stdio-forward target is requested, or no remote execution   *)
(* is, sshStart never starts a remote command or shell, never makes the    *)
(* terminal raw and never calls enableTrzsz; when both are requested the   *)
(* stdio-forward path is taken: it waits for the forward, never for the    *)
(* login handle.                                                           *)
(***************************************************************************)
C16_ShortCircuits ==
    /\ (StdioForward # "" \/ NoCommand) =>
          /\ \A c \in {"session.Start", "session.Shell", "execRemoteTools",
                       "makeStdinRaw", "enableTrzsz", "session.Wait"} : Count(log, c) = 0
          /\ ~stdinRaw
          /\ consumers = [s \in Streams |-> <<>>]
          /\ connector = "none"
    /\ (StdioForward # "" /\ NoCommand) => Count(log, "client.Wait") = 0
    /\ StdioForward # "" => mainPc # "client.Wait"
    /\ (StdioForward = "" /\ NoCommand) => mainPc # "wg.Wait"

C16_Witness ==
    /\ StdioForward # "" /\ NoCommand
    /\ mainPc = "wg.Wait"
    /\ Count(log, "logined") = 1
    /\ client = "open"

(***************************************************************************)
(* C17 as claimed: enableTrzsz starts no pump and no filter on any stream  *)
(* before the wiring is decided: the terminal is not interactive or has    *)
(* no pty, or EnableTrzsz was found to be "no", or the relay flag or       *)
(* no-GUI was found set, or the terminal width has been read; so no        *)
(* stream has been claimed when it returns the terminal-width error.       *)
(***************************************************************************)
C17_AsClaimed ==
    /\ (\E s \in Streams : consumers[s] # <<>>) =>
          \/ "isTerminal" \in evaluated /\ (~isTerminal \/ ~parsed.tty)
          \/ "EnableTrzsz" \in evaluated /\ ToLower(EnableTrzsz) = s_no
          \/ "Relay" \in evaluated /\ (Relay \/ noGUI)
          \/ "getTerminalSize" \in evaluated
    /\ sshErr = ErrTerminalSize => consumers = [s \in Streams |-> <<>>]

(***************************************************************************)
(* C18 as claimed: the login handle is closed by sshStart only, and no     *)
(* tunnel dial is issued on the closed handle, in any interleaving of      *)
(* sshStart with the filter it left running.                               *)
(***************************************************************************)
C18_AsClaimed ==
    /\ client = "closed" => Count(log, "client.Close") = 1
    /\ "closed" \notin dials

(***************************************************************************)
(* C19.  SoftEOF: the input pump on Windows with a pty; CtrlZs(s): the     *)
(* 0x1A bytes in s (the source delivers none in this model).               *)
(***************************************************************************)
SoftEOF == win /\ tty /\ input

CtrlZs(s) == Cardinality({i \in DOMAIN s : s[i] = 26})

Looping(p) == monitor[p] /\ pc[p] \notin {"unborn", "entry"} /\ bgErr[p] # "replace"

C20_NeverReturns ==
    \A p \in Procs :
        Looping(p) =>
            /\ pc[p] \in {"start", "wait", "error", "exited"}
            /\ pc[p] \in {"error", "exited"} => bgErr[p] = "start"
            /\ pc[p] = "wait" => (nStarts[p] > 0 /\ pc[p + 1] # "unborn")

Marked(p) == BACKGROUND \in environ[p]

Plain(p) == BACKGROUND \notin environ[p] /\ BG_MONITOR \notin environ[p]

Orchestrating(p) == pc[p] = "session"

Entered(p) == pc[p] \notin {"unborn", "entry"}

\* only a marked process calls sshStart, and a marked process starts no child
OnlyMarkedOrchestrate ==
    \A p \in Procs :
        /\ (Orchestrating(p) \/ sshStarts[p] > 0) => Marked(p)
        /\ (Entered(p) /\ Marked(p)) =>
              /\ nStarts[p] = 0
              /\ cmd[p] = NoCmd
              /\ sshStarts[p] = 1
              /\ p + 1 \in Procs => pc[p + 1] = "unborn"

\* never two processes in the session orchestrator
OneOrchestrator == Cardinality({p \in Procs : Orchestrating(p)}) <= 1

\* a plain process never waits for a child and never calls sshStart
PlainNeverWaits(p) ==
    /\ pc[p] \notin {"wait", "session"}
    /\ lifetimes[p] = <<>>
    /\ waitErr[p] = ""
    /\ sshStarts[p] = 0

(***************************************************************************)
(* C21 as claimed: only a process whose environment carries the            *)
(* background-instance marker runs the orchestrator, and it starts no      *)
(* child; every process with neither marker has, when its TsshMain has     *)
(* returned, started exactly one child, never waited for it, never called  *)
(* sshStart and returned 0; no two processes run the orchestrator at once. *)
(***************************************************************************)
C21_AsClaimed ==
    /\ OnlyMarkedOrchestrate
    /\ OneOrchestrator
    /\ \A p \in Procs :
          (Plain(p) /\ pc[p] = "exited") =>
             /\ PlainNeverWaits(p)
             /\ nStarts[p] = 1
             /\ tsshCode[p] = 0

(***************************************************************************)
(* C21 amended: only a process whose environment carries the               *)
(* background-instance marker runs the orchestrator, and it starts no      *)
(* child; a process with neither marker never waits for a child and never  *)
(* calls sshStart, and when its TsshMain has returned it has either        *)
(* started exactly one child, returned as parent and exited with 0, or --  *)
(* the relaunch construction or the child start having failed -- started   *)
(* no child and exited with 5; no two processes run the orchestrator at    *)
(* once.                                                                   *)
(***************************************************************************)
C21_OneOrchestrator ==
    /\ OnlyMarkedOrchestrate
    /\ OneOrchestrator
    /\ \A p \in Procs :
          (Plain(p) /\ Entered(p)) =>
             /\ PlainNeverWaits(p)
             /\ pc[p] = "parent" => (nStarts[p] = 1 /\ bgErr[p] = "")
             /\ pc[p] = "error" => (nStarts[p] = 0 /\ bgErr[p] \in {"replace", "start"})
             /\ pc[p] = "exited" =>
                   \/ nStarts[p] = 1 /\ bgErr[p] = "" /\ tsshCode[p] = 0
                   \/ nStarts[p] = 0 /\ bgErr[p] \in {"replace", "start"}
                                     /\ tsshCode[p] = 5

C21_Witness ==
    /\ ~Reconnect
    /\ Plain(1)
    /\ pc[1] = "exited"
    /\ nStarts[1] = 1
    /\ tsshCode[1] = 0
    /\ sshStarts[1] = 0
    /\ environ[2] = {BACKGROUND}
    /\ Orchestrating(2)
    /\ sshStarts[2] = 1
    /\ nStarts[2] = 0

=============================================================================
